---- MODULE Spec2Model ----
(***************************************************************************)
(* Model of the Plex Kiosk frontend-v2 client: the Axios transport         *)
(* (services/api.ts), the Pinia stores (stores/requests.ts, stores/auth.ts,*)
(* stores/admin.ts), the router and its guard (router/index.ts) and the    *)
(* views that drive them (App, MyRequests, Search, Login, Admin,            *)
(* RequestCard, StatusBadge). The remote API is the environment, except    *)
(* where a specification models its list of requests (server).             *)
(* Every async store function is split at its `await`: an issuing action   *)
(* (the synchronous prefix and the outgoing call) and one resolving action *)
(* per outcome (the response interceptor, then try/catch/finally).         *)
(***************************************************************************)
EXTENDS Bags, FiniteSets, Integers, Sequences, TLC

VARIABLES
    requestsStore,   \* useRequestsStore: [requests, loading, error]
    searchStore,     \* useSearchStore: [results, loading, error, lastQuery, selectedMediaType]
    authStore,       \* useAuthStore: [token, user, loading, error]
    localStorage,    \* value stored under the key 'token' (null when absent)
    location,        \* window.location.href
    inflight,        \* bag of remote calls awaiting their response
    appMounted,      \* App.vue onMounted has run
    activeTab,       \* MyRequests.vue activeTab
    nav,             \* outcome of the last router.beforeEach evaluation
    route,           \* vue-router currentRoute: [path, redirect] (query.redirect)
    myRequests,      \* MyRequests.vue instance: [mounted, interval]
    timers,          \* window timers: [active, next] (setInterval handles)
    adminStore,      \* useAdminStore
    adminView,       \* Admin.vue instance: [mounted, activeTab]
    server,          \* the remote API's requests, where a specification models it
    lastCancelled,   \* history: id of the latest successful cancelRequest (0: none)
    last             \* history: the handler step taken last, with its inputs

vars == <<requestsStore, searchStore, authStore, localStorage, location,
          inflight, appMounted, activeTab, nav, route, myRequests, timers,
          adminStore, adminView, server, lastCancelled, last>>

\* the state outside the stores of requests.ts and auth.ts
Views == <<route, myRequests, timers, adminStore, adminView, server>>

---------------------------------------------------------------------------
(* Bounds *)
MaxId == 2          \* request ids the server hands out: 1..MaxId
MaxRequests == 2    \* longest local request sequence explored
MaxInFlight == 2    \* remote calls in flight at once
MaxViewLen == 2     \* longest arbitrary sequence the derived views are applied to
MaxQueryLen == 2    \* longest search query, in characters
MaxResults == 1     \* longest result list a search response carries
MaxTimers == 2      \* setInterval handles handed out: 1..MaxTimers
MaxUsers == 1       \* user accounts the admin page lists: ids 1..MaxUsers

---------------------------------------------------------------------------
(* Values *)
null == "<null>"
undefined == "<undefined>"

RequestStatus ==
    {"pending", "searching", "awaiting_approval", "downloading",
     "processing", "completed", "error", "cancelled"}

Ids == 1..MaxId
Tokens == {"t1", "t2"}
Users == {[id |-> 1, role |-> "user"], [id |-> 2, role |-> "admin"]}
NoUser == [id |-> 0, role |-> null]

\* JavaScript truthiness of a string-or-null value
Truthy(s) == s # null /\ s # ""

\* a || b on strings
OrElse(a, b) == IF Truthy(a) THEN a ELSE b

---------------------------------------------------------------------------
(* types/api.ts *)

\* MediaRequest, reduced to the fields the stores and views read
\* (the status a request is created with; the views' statuses are in SpecViews)
MediaRequests == [id : Ids, status : {"pending"}]

\* a list as the server returns it: ids are unique (server-assigned)
ServerLists ==
    {s \in UNION {[1..n -> MediaRequests] : n \in 0..MaxId} :
        \A i, j \in DOMAIN s : i # j => s[i].id # s[j].id}

\* ApiError.detail: string | Record<string, any> ("undefined": no body)
Details ==
    {[type |-> "string", value |-> "Limite quotidienne atteinte"],
     [type |-> "string", value |-> ""],
     [type |-> "object", value |-> ""]}

\* AxiosError: a response with an error status, or no response at all
\* (status 0: network failure or the 30 s timeout)
AxiosErrors ==
    {[status |-> st, detail |-> d] : st \in {401, 500}, d \in Details}
    \cup {[status |-> 0, detail |-> [type |-> "undefined", value |-> ""]]}

---------------------------------------------------------------------------
(* services/api.ts: ApiService *)

\* request interceptor: the Authorization header put on an outgoing call
Authorization ==
    IF Truthy(localStorage) THEN <<"Bearer", localStorage>> ELSE <<>>

\* the remote API as the environment (any answer to any call), unless a
\* specification models the requests it holds
NoServer == [modelled |-> FALSE]

\* a call handed to axios and not yet answered. `after` is history: the list
\* was asked for after the latest successful cancellation (lastCancelled).
\* `served` is the remote API's side of the call: "any" where the API is the
\* environment, else "waiting" until the API has handled the call, then
\* "answered" with the response on its way back
Call(fn, id, params) ==
    [fn |-> fn, id |-> id, params |-> params,
     after |-> fn \in {"getMyRequests", "getAllRequests"} /\ lastCancelled # 0,
     served |-> [state |-> IF server.modelled THEN "waiting" ELSE "any",
                 resp |-> <<>>]]

\* resp is a response the call can be resolved with
Answers(c, resp) ==
    \/ c.served.state = "any"
    \/ c.served.state = "answered" /\ c.served.resp = <<resp>>

\* history: a cancellation has succeeded, every list asked for so far predates it
Predate(c) == [c EXCEPT !.after = FALSE]

InFlight == BagToSet(inflight)
Send(c) == inflight (+) SetToBag({c})
Settle(c) == inflight (-) SetToBag({c})
CanSend == BagCardinality(inflight) < MaxInFlight

\* (faulty variant: the persisted token survives a 401)
KeepStorage(err) == localStorage
\* response interceptor, error branch: 401 removes the persisted token ...
StorageAfterError(err) == IF err.status = 401 THEN null ELSE localStorage
\* ... and redirects to the login page
LocationAfterError(err) == IF err.status = 401 THEN "/login" ELSE location
\* (faulty variant: the detail is taken for the message whatever its type)
DetailAsMessage(err) == err.detail.value
\* ... and every error is rejected as new Error(message)
RejectMessage(err) ==
    IF err.detail.type = "string" THEN err.detail.value
    ELSE "Une erreur est survenue"

\* the interceptor's effects on the state outside the stores
Intercept(err) ==
    /\ localStorage' = StorageAfterError(err)
    /\ location' = LocationAfterError(err)

---------------------------------------------------------------------------
(* How an async store function settles: the completion of its             *)
(* try / catch / finally statement, then the promise the caller awaits     *)

Normal == [type |-> "normal", value |-> "undefined"]
Return(v) == [type |-> "return", value |-> v]
Throw == [type |-> "throw", value |-> "Error"]

\* (faulty variant: no catch clause, the rejection goes through)
TryFinally(tryC, catchC, finallyC) ==
    IF finallyC.type = "normal" THEN tryC ELSE finallyC
\* try { ... } catch (err) { ... } finally { ... }
TryCatchFinally(tryC, catchC, finallyC) ==
    LET c == IF tryC.type = "throw" THEN catchC ELSE tryC
    IN IF finallyC.type = "normal" THEN c ELSE finallyC

\* the promise of an async function whose body completes with c
Promise(c) ==
    IF c.type = "throw" THEN [state |-> "rejected", value |-> c.value]
    ELSE [state |-> "fulfilled", value |-> c.value]

\* async function f() { try { x = await call } catch { error = ... } finally { ... } }
VoidOp(rejected) ==
    Promise(TryCatchFinally(IF rejected THEN Throw ELSE Normal, Normal, Normal))
\* ... try { await call; return true } catch { ...; return false } finally { ... }
BoolOp(rejected) ==
    Promise(TryCatchFinally(IF rejected THEN Throw ELSE Return("true"),
                            Return("false"), Normal))

---------------------------------------------------------------------------
(* stores/requests.ts: useRequestsStore *)

Begin(s) == [s EXCEPT !.loading = TRUE, !.error = null]
\* (faulty variant: loading is left as it is)
NoFinally(s) == s
\* finally { loading.value = false }
Finally(s) == [s EXCEPT !.loading = FALSE]

\* (faulty variant: the server list is put in front of the local one)
MergeRequests(s, list) == [s EXCEPT !.requests = list \o @]
\* (faulty variant: a list that arrives also resets the error)
SetRequestsAndClear(s, list) == [s EXCEPT !.requests = list, !.error = null]
\* requests.value = await api.getMyRequests()
SetRequests(s, list) == [s EXCEPT !.requests = list]

\* (faulty variant: push instead of unshift)
Push(s, newRequest) == [s EXCEPT !.requests = Append(@, newRequest)]
\* requests.value.unshift(newRequest)
Unshift(s, newRequest) == [s EXCEPT !.requests = <<newRequest>> \o @]

\* (faulty variant: the first entry is dropped, whatever its id)
RemoveFirst(s, id) ==
    [s EXCEPT !.requests = IF @ = <<>> THEN @ ELSE Tail(@)]
\* requests.value = requests.value.filter(r => r.id !== id)
RemoveId(s, id) ==
    [s EXCEPT !.requests = SelectSeq(@, LAMBDA r : r.id # id)]

\* (faulty variant: the list is emptied on failure, as useSearchStore does)
CatchAndClear(s, err, fallback) ==
    [s EXCEPT !.error = OrElse(RejectMessage(err), fallback), !.requests = <<>>]
\* catch (err) { error.value = err.message || fallback }
\* (the fallback strings are written without their accents)
Catch(s, err, fallback) ==
    [s EXCEPT !.error = OrElse(RejectMessage(err), fallback)]

OtherStores == <<searchStore, authStore, appMounted, activeTab, nav, Views>>

fetchMyRequests ==
    /\ CanSend
    /\ requestsStore' = Begin(requestsStore)
    /\ inflight' = Send(Call("getMyRequests", 0, <<>>))
    /\ last' = [op |-> "fetchMyRequests"]
    /\ UNCHANGED <<localStorage, location, lastCancelled, OtherStores>>

fetchMyRequestsResolved ==
    \E c \in InFlight, list \in ServerLists :
        /\ c.fn = "getMyRequests"
        /\ Answers(c, list)
        /\ requestsStore' = Finally(SetRequests(requestsStore, list))
        /\ inflight' = Settle(c)
        /\ last' = [op |-> "fetchMyRequestsResolved", promise |-> VoidOp(FALSE), after |-> c.after,
                    resp |-> list]
        /\ UNCHANGED <<localStorage, location, lastCancelled, OtherStores>>

fetchMyRequestsRejected ==
    \E c \in InFlight, err \in AxiosErrors :
        /\ c.fn = "getMyRequests"
        /\ Intercept(err)
        /\ requestsStore' =
             Finally(Catch(requestsStore, err, "Erreur de chargement des requetes"))
        /\ inflight' = Settle(c)
        /\ last' = [op |-> "fetchMyRequestsRejected", promise |-> VoidOp(TRUE), status |-> err.status, detail |-> err.detail]
        /\ UNCHANGED <<lastCancelled, OtherStores>>

fetchAllRequests ==
    /\ CanSend
    /\ requestsStore' = Begin(requestsStore)
    /\ inflight' = Send(Call("getAllRequests", 0, <<>>))
    /\ last' = [op |-> "fetchAllRequests"]
    /\ UNCHANGED <<localStorage, location, lastCancelled, OtherStores>>

fetchAllRequestsResolved ==
    \E c \in InFlight, list \in ServerLists :
        /\ c.fn = "getAllRequests"
        /\ Answers(c, list)
        /\ requestsStore' = Finally(SetRequests(requestsStore, list))
        /\ inflight' = Settle(c)
        /\ last' = [op |-> "fetchAllRequestsResolved", promise |-> VoidOp(FALSE), after |-> c.after, resp |-> list]
        /\ UNCHANGED <<localStorage, location, lastCancelled, OtherStores>>

fetchAllRequestsRejected ==
    \E c \in InFlight, err \in AxiosErrors :
        /\ c.fn = "getAllRequests"
        /\ Intercept(err)
        /\ requestsStore' =
             Finally(Catch(requestsStore, err, "Erreur de chargement des requetes"))
        /\ inflight' = Settle(c)
        /\ last' = [op |-> "fetchAllRequestsRejected", promise |-> VoidOp(TRUE), status |-> err.status, detail |-> err.detail]
        /\ UNCHANGED <<lastCancelled, OtherStores>>

\* the local sequence is kept within MaxRequests entries
createRequest ==
    /\ CanSend
    /\ Len(requestsStore.requests) < MaxRequests
    /\ requestsStore' = Begin(requestsStore)
    /\ inflight' = Send(Call("createRequest", 0, <<>>))
    /\ last' = [op |-> "createRequest"]
    /\ UNCHANGED <<localStorage, location, lastCancelled, OtherStores>>

createRequestResolved ==
    \E c \in InFlight, newRequest \in MediaRequests :
        /\ c.fn = "createRequest"
        /\ Answers(c, newRequest)
        /\ Len(requestsStore.requests) < MaxRequests
        /\ requestsStore' = Finally(Unshift(requestsStore, newRequest))
        /\ inflight' = Settle(c)
        /\ last' = [op |-> "createRequestResolved", promise |-> BoolOp(FALSE),
                    resp |-> newRequest, ret |-> TRUE]
        /\ UNCHANGED <<localStorage, location, lastCancelled, OtherStores>>

createRequestRejected ==
    \E c \in InFlight, err \in AxiosErrors :
        /\ c.fn = "createRequest"
        /\ Intercept(err)
        /\ requestsStore' =
             Finally(Catch(requestsStore, err, "Erreur de creation de la requete"))
        /\ inflight' = Settle(c)
        /\ last' = [op |-> "createRequestRejected", promise |-> BoolOp(TRUE), status |-> err.status, detail |-> err.detail,
                    ret |-> FALSE]
        /\ UNCHANGED <<lastCancelled, OtherStores>>

cancelRequest ==
    \E id \in Ids :
        /\ CanSend
        /\ requestsStore' = Begin(requestsStore)
        /\ inflight' = Send(Call("cancelRequest", id, <<>>))
        /\ last' = [op |-> "cancelRequest", id |-> id]
        /\ UNCHANGED <<localStorage, location, lastCancelled, OtherStores>>

cancelRequestResolved ==
    \E c \in InFlight :
        /\ c.fn = "cancelRequest"
        /\ Answers(c, c.id)
        /\ requestsStore' = Finally(RemoveId(requestsStore, c.id))
        /\ inflight' = BagOfAll(Predate, Settle(c))
        /\ lastCancelled' = c.id
        /\ last' = [op |-> "cancelRequestResolved", promise |-> BoolOp(FALSE), id |-> c.id,
                    removed |-> c.id \in {requestsStore.requests[i].id :
                                            i \in DOMAIN requestsStore.requests},
                    ret |-> TRUE]
        /\ UNCHANGED <<localStorage, location, OtherStores>>

cancelRequestRejected ==
    \E c \in InFlight, err \in AxiosErrors :
        /\ c.fn = "cancelRequest"
        /\ Intercept(err)
        /\ requestsStore' =
             Finally(Catch(requestsStore, err, "Erreur d'annulation de la requete"))
        /\ inflight' = Settle(c)
        /\ last' = [op |-> "cancelRequestRejected", promise |-> BoolOp(TRUE), status |-> err.status, detail |-> err.detail,
                    ret |-> FALSE]
        /\ UNCHANGED <<lastCancelled, OtherStores>>

clearError ==
    /\ requestsStore.error # null
    /\ requestsStore' = [requestsStore EXCEPT !.error = null]
    /\ last' = [op |-> "clearError"]
    /\ UNCHANGED <<localStorage, location, inflight, lastCancelled, OtherStores>>

---------------------------------------------------------------------------
(* The remote API behind the requests methods of services/api.ts: one user's  *)
(* requests, newest first, each with the id the API gave it                   *)

NewServer == [modelled |-> TRUE, requests |-> <<>>, nextId |-> 1]

\* the call, handled, with its response on the way back
Answered(c, resp) ==
    [c EXCEPT !.served = [state |-> "answered", resp |-> <<resp>>]]

ServerFrame ==
    <<requestsStore, searchStore, authStore, localStorage, location,
      appMounted, activeTab, nav, route, myRequests, timers, adminStore,
      adminView, lastCancelled>>

\* POST /requests: the new MediaRequest, with an id no request had before
postRequests ==
    \E c \in InFlight :
        LET newRequest == [id |-> server.nextId, status |-> "pending"]
        IN /\ c.fn = "createRequest"
           /\ c.served.state = "waiting"
           /\ server.nextId <= MaxId
           /\ server' = [server EXCEPT !.requests = <<newRequest>> \o @,
                                       !.nextId = @ + 1]
           /\ inflight' = Send(Answered(c, newRequest)) (-) SetToBag({c})
           /\ last' = [op |-> "postRequests", id |-> newRequest.id]
           /\ UNCHANGED ServerFrame

\* GET /requests/my, GET /requests: the requests as they are now
getRequests ==
    \E c \in InFlight :
        /\ c.fn \in {"getMyRequests", "getAllRequests"}
        /\ c.served.state = "waiting"
        /\ inflight' = Send(Answered(c, server.requests)) (-) SetToBag({c})
        /\ last' = [op |-> "getRequests"]
        /\ UNCHANGED <<server, ServerFrame>>

\* DELETE /requests/{id}: the request leaves the lists (an id the API does
\* not hold gets no answer but an error)
deleteRequests ==
    \E c \in InFlight :
        /\ c.fn = "cancelRequest"
        /\ c.served.state = "waiting"
        /\ \E i \in DOMAIN server.requests : server.requests[i].id = c.id
        /\ server' = [server EXCEPT
                        !.requests = SelectSeq(@, LAMBDA r : r.id # c.id)]
        /\ inflight' = Send(Answered(c, c.id)) (-) SetToBag({c})
        /\ last' = [op |-> "deleteRequests", id |-> c.id]
        /\ UNCHANGED ServerFrame

---------------------------------------------------------------------------
(* stores/requests.ts: derived views; MyRequests.vue: filter tabs *)

\* (faulty variant: awaiting_approval counted as pending)
ActiveOrAwaiting(r) ==
    r.status \in {"pending", "searching", "awaiting_approval", "downloading",
                  "processing"}
\* ['pending', 'searching', 'downloading', 'processing'].includes(r.status)
IsPending(r) ==
    r.status \in {"pending", "searching", "downloading", "processing"}

pendingRequests == SelectSeq(requestsStore.requests, IsPending)
completedRequests ==
    SelectSeq(requestsStore.requests, LAMBDA r : r.status = "completed")
failedRequests ==
    SelectSeq(requestsStore.requests, LAMBDA r : r.status = "error")

Tabs == {"all", "pending", "completed", "failed"}

filteredRequests ==
    CASE activeTab = "pending" -> pendingRequests
      [] activeTab = "completed" -> completedRequests
      [] activeTab = "failed" -> failedRequests
      [] OTHER -> requestsStore.requests

\* @click="activeTab = ..."
selectTab ==
    \E tab \in Tabs :
        /\ activeTab' = tab
        /\ last' = [op |-> "selectTab"]
        /\ UNCHANGED <<requestsStore, searchStore, authStore, localStorage,
                       location, inflight, appMounted, nav, lastCancelled, Views>>

---------------------------------------------------------------------------
(* RequestCard.vue: the cancel button; MyRequests.vue: handleCancelRequest *)

\* (faulty variant: the statuses of showProgress are taken for cancellable too)
canCancelActive(request) ==
    request.status \in {"pending", "searching", "awaiting_approval",
                        "downloading", "processing"}
\* ['pending', 'searching', 'awaiting_approval'].includes(props.request.status)
canCancel(request) ==
    request.status \in {"pending", "searching", "awaiting_approval"}

\* one RequestCard per entry of filteredRequests; its button (v-if="canCancel")
\* emits 'cancel' with the request's id, which MyRequests.vue handles:
\* confirm(), then requestsStore.cancelRequest(id) up to its await
handleCancelRequest ==
    \E i \in DOMAIN filteredRequests, confirmed \in BOOLEAN :
        LET request == filteredRequests[i]
        IN /\ canCancel(request)
           /\ IF confirmed
              THEN /\ CanSend
                   /\ requestsStore' = Begin(requestsStore)
                   /\ inflight' = Send(Call("cancelRequest", request.id, <<>>))
              ELSE UNCHANGED <<requestsStore, inflight>>
           /\ last' = [op |-> "handleCancelRequest", id |-> request.id,
                       card |-> request.status, confirmed |-> confirmed]
           /\ UNCHANGED <<searchStore, authStore, localStorage, location,
                          appMounted, activeTab, nav, lastCancelled, Views>>

---------------------------------------------------------------------------
(* StatusBadge.vue: statusConfig (icons by name, labels without accents) *)

\* the object literal `configs`: its own properties
configs ==
    [s \in RequestStatus |->
        CASE s = "pending" -> [icon |-> "hourglass", label |-> "En attente"]
          [] s = "searching" -> [icon |-> "magnifier", label |-> "Recherche"]
          [] s = "awaiting_approval" ->
               [icon |-> "warning", label |-> "Approbation requise"]
          [] s = "downloading" -> [icon |-> "down", label |-> "Telechargement"]
          [] s = "processing" -> [icon |-> "gear", label |-> "Traitement"]
          [] s = "completed" -> [icon |-> "check", label |-> "Complete"]
          [] s = "error" -> [icon |-> "cross", label |-> "Erreur"]
          [] s = "cancelled" -> [icon |-> "forbidden", label |-> "Annule"]]

\* properties an object literal inherits from Object.prototype (some of them):
\* functions and objects, none of which has an `icon` or a `label`
ObjectPrototype == {"constructor", "toString", "__proto__"}

\* strings a status can hold besides the eight of RequestStatus
\* (the type is not checked when the response is read)
OtherStatuses == {"archived", ""} \cup ObjectPrototype

\* configs[key]: the property as JavaScript looks it up, own first, then along
\* the prototype chain; <<>> stands for undefined
Get(key) ==
    IF key \in DOMAIN configs THEN <<configs[key]>>
    ELSE IF key \in ObjectPrototype
         THEN <<[icon |-> undefined, label |-> undefined]>>
         ELSE <<>>

\* configs[props.status] || { icon: '?', label: props.status }
statusConfig(status) ==
    IF Get(status) # <<>> THEN Get(status)[1]
    ELSE [icon |-> "question mark", label |-> status]

\* RequestCard.vue renders <StatusBadge :status="request.status" /> on each card
StatusBadge ==
    \E i \in DOMAIN filteredRequests :
        LET status == filteredRequests[i].status
        IN /\ last' = [op |-> "StatusBadge", status |-> status,
                       icon |-> statusConfig(status).icon,
                       label |-> statusConfig(status).label]
           /\ UNCHANGED <<requestsStore, searchStore, authStore, localStorage,
                          location, inflight, appMounted, activeTab, nav,
                          lastCancelled, Views>>

---------------------------------------------------------------------------
(* MyRequests.vue: the periodic refresh *)

\* no Admin.vue instance
NoAdminView == [mounted |-> FALSE, activeTab |-> "dashboard"]
\* no MyRequests.vue instance, no timer set
NoView == [mounted |-> FALSE, interval |-> 0]
NoTimers == [active |-> {}, next |-> 1]

\* setInterval(handler, 30000): a new handle, active until cleared
setInterval(t) == [active |-> t.active \cup {t.next}, next |-> t.next + 1]
\* (faulty variant: the interval is left running)
leakInterval(t, handle) == t
\* clearInterval(handle)
clearInterval(t, handle) == [t EXCEPT !.active = @ \ {handle}]

RefreshFrame ==
    <<searchStore, authStore, appMounted, activeTab, nav, route, adminStore,
      adminView, server, localStorage, location, lastCancelled>>

\* requestsStore.fetchMyRequests(), as the view calls it
CallFetchMyRequests ==
    /\ CanSend
    /\ requestsStore' = Begin(requestsStore)
    /\ inflight' = Send(Call("getMyRequests", 0, <<>>))

\* onMounted: fetch, start the interval, register the cleanup with its handle
mountMyRequests ==
    /\ ~myRequests.mounted
    /\ timers.next <= MaxTimers
    /\ CallFetchMyRequests
    /\ timers' = setInterval(timers)
    /\ myRequests' = [mounted |-> TRUE, interval |-> timers.next]
    /\ last' = [op |-> "mountMyRequests"]
    /\ UNCHANGED RefreshFrame

\* the interval's handler, run by the browser for any active handle
tick ==
    \E handle \in timers.active :
        /\ CallFetchMyRequests
        /\ last' = [op |-> "tick", handle |-> handle,
                    mounted |-> myRequests.mounted]
        /\ UNCHANGED <<myRequests, timers, RefreshFrame>>

\* onBeforeUnmount: clearInterval(interval)
unmountMyRequests ==
    /\ myRequests.mounted
    /\ timers' = clearInterval(timers, myRequests.interval)
    /\ myRequests' = NoView
    /\ last' = [op |-> "unmountMyRequests"]
    /\ UNCHANGED <<requestsStore, inflight, RefreshFrame>>

---------------------------------------------------------------------------
(* stores/requests.ts: useSearchStore; views/Search.vue *)

Whitespace == {" "}
Chars == Whitespace \cup {"a"}
Queries == UNION {[1..n -> Chars] : n \in 0..MaxQueryLen}
\* mediaType: the only caller (Search.vue handleSearch) leaves the default
MediaTypes == {"all"}

SearchResults == [id : {"603"}, source : {"tmdb", "anilist"}]
ResultLists == UNION {[1..n -> SearchResults] : n \in 0..MaxResults}

RECURSIVE TrimStart(_)
TrimStart(q) ==
    IF q # <<>> /\ Head(q) \in Whitespace THEN TrimStart(Tail(q)) ELSE q

RECURSIVE TrimEnd(_)
TrimEnd(q) ==
    IF q # <<>> /\ q[Len(q)] \in Whitespace
    THEN TrimEnd(SubSeq(q, 1, Len(q) - 1)) ELSE q

\* (faulty variant: the query is tested untrimmed)
NoTrim(q) == q
\* query.trim()
Trim(q) == TrimEnd(TrimStart(q))

\* !query.trim(): the empty string is falsy
IsBlank(q) == Trim(q) = <<>>

SearchFrame ==
    <<requestsStore, authStore, appMounted, activeTab, nav, lastCancelled, Views>>

\* (faulty variant: the previous results are dropped as the search is issued)
SearchCallClearing(query, mediaType) ==
    IF IsBlank(query)
    THEN /\ searchStore' = [searchStore EXCEPT !.results = <<>>]
         /\ UNCHANGED inflight
    ELSE /\ CanSend
         /\ searchStore' = [searchStore EXCEPT !.loading = TRUE, !.error = null,
                                               !.lastQuery = query,
                                               !.selectedMediaType = mediaType,
                                               !.results = <<>>]
         /\ inflight' = Send(Call("searchMedia", 0, <<query, mediaType>>))
\* search(query, mediaType), up to its return or its await
SearchCall(query, mediaType) ==
    IF IsBlank(query)
    THEN /\ searchStore' = [searchStore EXCEPT !.results = <<>>]
         /\ UNCHANGED inflight
    ELSE /\ CanSend
         /\ searchStore' = [searchStore EXCEPT !.loading = TRUE, !.error = null,
                                               !.lastQuery = query,
                                               !.selectedMediaType = mediaType]
         /\ inflight' = Send(Call("searchMedia", 0, <<query, mediaType>>))

search ==
    \E query \in Queries, mediaType \in MediaTypes :
        /\ SearchCall(query, mediaType)
        /\ last' = [op |-> "search", query |-> query]
        /\ UNCHANGED <<localStorage, location, SearchFrame>>

\* Search.vue handleSearch: if (!searchQuery.value.trim()) return
handleSearch ==
    \E searchQuery \in Queries :
        /\ IF IsBlank(searchQuery)
           THEN UNCHANGED <<searchStore, inflight>>
           ELSE SearchCall(searchQuery, "all")
        /\ last' = [op |-> "handleSearch", query |-> searchQuery]
        /\ UNCHANGED <<localStorage, location, SearchFrame>>

searchResolved ==
    \E c \in InFlight, list \in ResultLists :
        /\ c.fn = "searchMedia"
        /\ searchStore' = Finally([searchStore EXCEPT !.results = list])
        /\ inflight' = Settle(c)
        /\ last' = [op |-> "searchResolved", promise |-> VoidOp(FALSE), query |-> c.params[1], resp |-> list]
        /\ UNCHANGED <<localStorage, location, SearchFrame>>

searchRejected ==
    \E c \in InFlight, err \in AxiosErrors :
        /\ c.fn = "searchMedia"
        /\ Intercept(err)
        /\ searchStore' =
             Finally([searchStore EXCEPT
                        !.error = OrElse(RejectMessage(err), "Erreur de recherche"),
                        !.results = <<>>])
        /\ inflight' = Settle(c)
        /\ last' = [op |-> "searchRejected", promise |-> VoidOp(TRUE), query |-> c.params[1],
                    status |-> err.status, detail |-> err.detail]
        /\ UNCHANGED SearchFrame

clearResults ==
    /\ searchStore' = [searchStore EXCEPT !.results = <<>>, !.lastQuery = <<>>,
                                          !.error = null]
    /\ last' = [op |-> "clearResults"]
    /\ UNCHANGED <<localStorage, location, inflight, SearchFrame>>

---------------------------------------------------------------------------
(* stores/auth.ts: useAuthStore; App.vue *)

isAuthenticated == Truthy(authStore.token) /\ authStore.user # NoUser
isAdmin == authStore.user.role = "admin"

\* LoginResponse
LoginResponses == [access_token : Tokens, user : Users]

AuthFrame ==
    <<requestsStore, searchStore, activeTab, nav, lastCancelled, Views>>

\* (faulty variant: the user of the response is not stored)
StoreTokenOnly(s, data) == [s EXCEPT !.token = data.access_token]
\* login: token.value = data.access_token; user.value = data.user
StoreLogin(s, data) ==
    [s EXCEPT !.token = data.access_token, !.user = data.user]

\* (faulty variant: the in-memory session is kept)
KeepSession(s) == s
\* logout, finally: token.value = null; user.value = null
ClearSession(s) == [s EXCEPT !.token = null, !.user = NoUser]

\* (faulty variant: the error is recorded and the session kept)
KeepSessionOnError(s, err) == [s EXCEPT !.error = RejectMessage(err)]
\* fetchCurrentUser, catch: error.value = err.message, then the session is dropped
FetchUserCatch(s, err) ==
    ClearSession([s EXCEPT !.error = RejectMessage(err)])

\* setToken(newToken), with the synchronous start of fetchCurrentUser()
setToken(newToken) ==
    /\ localStorage' = newToken
    /\ IF Truthy(newToken)
       THEN /\ authStore' = Begin([authStore EXCEPT !.token = newToken])
            /\ inflight' = Send(Call("getCurrentUser", 0, <<>>))
       ELSE /\ authStore' = [authStore EXCEPT !.token = newToken]
            /\ UNCHANGED inflight

\* App.vue onMounted: restore the session from localStorage
mountApp ==
    /\ ~appMounted
    /\ appMounted' = TRUE
    /\ IF Truthy(localStorage)
       THEN setToken(localStorage)
       ELSE UNCHANGED <<localStorage, authStore, inflight>>
    /\ last' = [op |-> "mountApp", stored |-> localStorage]
    /\ UNCHANGED <<location, AuthFrame>>

fetchCurrentUserResolved ==
    \E c \in InFlight, u \in Users :
        /\ c.fn = "getCurrentUser"
        /\ authStore' = Finally([authStore EXCEPT !.user = u])
        /\ inflight' = Settle(c)
        /\ last' = [op |-> "fetchCurrentUserResolved", promise |-> VoidOp(FALSE)]
        /\ UNCHANGED <<localStorage, location, appMounted, AuthFrame>>

fetchCurrentUserRejected ==
    \E c \in InFlight, err \in AxiosErrors :
        /\ c.fn = "getCurrentUser"
        /\ location' = LocationAfterError(err)
        /\ authStore' = Finally(FetchUserCatch(authStore, err))
        /\ localStorage' = null
        /\ inflight' = Settle(c)
        /\ last' = [op |-> "fetchCurrentUserRejected", promise |-> VoidOp(TRUE), status |-> err.status, detail |-> err.detail]
        /\ UNCHANGED <<appMounted, AuthFrame>>

login ==
    /\ appMounted
    /\ CanSend
    /\ authStore' = Begin(authStore)
    /\ inflight' = Send(Call("login", 0, <<>>))
    /\ last' = [op |-> "login"]
    /\ UNCHANGED <<localStorage, location, appMounted, AuthFrame>>

loginResolved ==
    \E c \in InFlight, data \in LoginResponses :
        /\ c.fn = "login"
        /\ authStore' = Finally(StoreLogin(authStore, data))
        /\ localStorage' = data.access_token
        /\ inflight' = Settle(c)
        /\ last' = [op |-> "loginResolved", promise |-> BoolOp(FALSE), ret |-> TRUE]
        /\ UNCHANGED <<location, appMounted, AuthFrame>>

loginRejected ==
    \E c \in InFlight, err \in AxiosErrors :
        /\ c.fn = "login"
        /\ Intercept(err)
        /\ authStore' =
             Finally([authStore EXCEPT
                        !.error = OrElse(RejectMessage(err), "Erreur de connexion")])
        /\ inflight' = Settle(c)
        /\ last' = [op |-> "loginRejected", promise |-> BoolOp(TRUE), status |-> err.status, detail |-> err.detail, ret |-> FALSE]
        /\ UNCHANGED <<appMounted, AuthFrame>>

logout ==
    /\ appMounted
    /\ CanSend
    /\ authStore' = [authStore EXCEPT !.loading = TRUE]
    /\ inflight' = Send(Call("logout", 0, <<>>))
    /\ last' = [op |-> "logout"]
    /\ UNCHANGED <<localStorage, location, appMounted, AuthFrame>>

logoutResolved ==
    \E c \in InFlight :
        /\ c.fn = "logout"
        /\ authStore' = Finally(ClearSession(authStore))
        /\ localStorage' = null
        /\ inflight' = Settle(c)
        /\ last' = [op |-> "logoutResolved", promise |-> VoidOp(FALSE)]
        /\ UNCHANGED <<location, appMounted, AuthFrame>>

logoutRejected ==
    \E c \in InFlight, err \in AxiosErrors :
        /\ c.fn = "logout"
        /\ location' = LocationAfterError(err)
        /\ authStore' = Finally(ClearSession(authStore))
        /\ localStorage' = null
        /\ inflight' = Settle(c)
        /\ last' = [op |-> "logoutRejected", promise |-> VoidOp(TRUE), status |-> err.status]
        /\ UNCHANGED <<appMounted, AuthFrame>>

---------------------------------------------------------------------------
(* stores/admin.ts: useAdminStore *)

StatsValues == {"stats"}
SettingsValues == {"s1", "s2"}
UserIds == 1..MaxUsers
AdminUsers == [id : UserIds, is_active : BOOLEAN]
\* a user list as the server returns it: one entry per account
UserLists ==
    {l \in UNION {[1..n -> AdminUsers] : n \in 0..MaxUsers} :
        \A i, j \in DOMAIN l : i # j => l[i].id # l[j].id}

AdminFrame ==
    <<requestsStore, searchStore, authStore, appMounted, activeTab, nav,
      route, myRequests, timers, adminView, server, lastCancelled>>

\* users.value.filter((u) => u.id !== userId)
WithoutUser(users, userId) == SelectSeq(users, LAMBDA u : u.id # userId)

\* const user = users.value.find(...); if (user) user.is_active = isActive
WithStatus(users, userId, isActive) ==
    [i \in DOMAIN users |->
        IF i \in {j \in DOMAIN users : users[j].id = userId
                                        /\ \A k \in 1..(j - 1) : users[k].id # userId}
        THEN [users[i] EXCEPT !.is_active = isActive]
        ELSE users[i]]

\* the start of an admin action up to its await
AdminCall(flag, field, fn, id, params) ==
    /\ CanSend
    /\ adminStore' = [adminStore EXCEPT ![flag] = TRUE, ![field] = null]
    /\ inflight' = Send(Call(fn, id, params))
    /\ UNCHANGED <<localStorage, location, AdminFrame>>

\* catch (err) { <field>.value = err.message || fallback } finally { <flag>.value = false }
AdminCatch(c, err, flag, field, fallback) ==
    /\ Intercept(err)
    /\ adminStore' = [adminStore EXCEPT
                        ![field] = OrElse(RejectMessage(err), fallback),
                        ![flag] = FALSE]
    /\ inflight' = Settle(c)
    /\ UNCHANGED AdminFrame

fetchStats ==
    /\ AdminCall("loading", "error", "getStats", 0, <<>>)
    /\ last' = [op |-> "fetchStats"]

fetchStatsResolved ==
    \E c \in InFlight, data \in StatsValues :
        /\ c.fn = "getStats"
        /\ adminStore' = [adminStore EXCEPT !.stats = data, !.loading = FALSE]
        /\ inflight' = Settle(c)
        /\ last' = [op |-> "fetchStatsResolved", promise |-> VoidOp(FALSE)]
        /\ UNCHANGED <<localStorage, location, AdminFrame>>

fetchStatsRejected ==
    \E c \in InFlight, err \in AxiosErrors :
        /\ c.fn = "getStats"
        /\ AdminCatch(c, err, "loading", "error",
                      "Erreur de chargement des statistiques")
        /\ last' = [op |-> "fetchStatsRejected", promise |-> VoidOp(TRUE),
                    status |-> err.status, detail |-> err.detail]

\* useAdminStore's clearError
adminClearError ==
    /\ adminStore.error # null
    /\ adminStore' = [adminStore EXCEPT !.error = null]
    /\ last' = [op |-> "adminClearError"]
    /\ UNCHANGED <<localStorage, location, inflight, AdminFrame>>

fetchUsers ==
    /\ AdminCall("usersLoading", "usersError", "getUsers", 0, <<>>)
    /\ last' = [op |-> "fetchUsers"]

fetchUsersResolved ==
    \E c \in InFlight, data \in UserLists :
        /\ c.fn = "getUsers"
        /\ adminStore' = [adminStore EXCEPT !.users = data,
                                            !.usersLoading = FALSE]
        /\ inflight' = Settle(c)
        /\ last' = [op |-> "fetchUsersResolved", promise |-> VoidOp(FALSE)]
        /\ UNCHANGED <<localStorage, location, AdminFrame>>

fetchUsersRejected ==
    \E c \in InFlight, err \in AxiosErrors :
        /\ c.fn = "getUsers"
        /\ AdminCatch(c, err, "usersLoading", "usersError",
                      "Erreur de chargement des utilisateurs")
        /\ last' = [op |-> "fetchUsersRejected", promise |-> VoidOp(TRUE),
                    status |-> err.status, detail |-> err.detail]

deleteUser ==
    \E userId \in UserIds :
        /\ AdminCall("usersLoading", "usersError", "deleteUser", userId, <<>>)
        /\ last' = [op |-> "deleteUser"]

deleteUserResolved ==
    \E c \in InFlight :
        /\ c.fn = "deleteUser"
        /\ adminStore' = [adminStore EXCEPT !.users = WithoutUser(@, c.id),
                                            !.usersLoading = FALSE]
        /\ inflight' = Settle(c)
        /\ last' = [op |-> "deleteUserResolved", promise |-> BoolOp(FALSE)]
        /\ UNCHANGED <<localStorage, location, AdminFrame>>

deleteUserRejected ==
    \E c \in InFlight, err \in AxiosErrors :
        /\ c.fn = "deleteUser"
        /\ AdminCatch(c, err, "usersLoading", "usersError",
                      "Erreur de suppression de l'utilisateur")
        /\ last' = [op |-> "deleteUserRejected", promise |-> BoolOp(TRUE),
                    status |-> err.status, detail |-> err.detail]

updateUserStatus ==
    \E userId \in UserIds, isActive \in BOOLEAN :
        /\ AdminCall("usersLoading", "usersError", "updateUserStatus", userId,
                     <<isActive>>)
        /\ last' = [op |-> "updateUserStatus"]

updateUserStatusResolved ==
    \E c \in InFlight :
        /\ c.fn = "updateUserStatus"
        /\ adminStore' = [adminStore EXCEPT
                            !.users = WithStatus(@, c.id, c.params[1]),
                            !.usersLoading = FALSE]
        /\ inflight' = Settle(c)
        /\ last' = [op |-> "updateUserStatusResolved", promise |-> BoolOp(FALSE)]
        /\ UNCHANGED <<localStorage, location, AdminFrame>>

updateUserStatusRejected ==
    \E c \in InFlight, err \in AxiosErrors :
        /\ c.fn = "updateUserStatus"
        /\ AdminCatch(c, err, "usersLoading", "usersError",
                      "Erreur de mise a jour du statut")
        /\ last' = [op |-> "updateUserStatusRejected", promise |-> BoolOp(TRUE),
                    status |-> err.status, detail |-> err.detail]

fetchSettings ==
    /\ AdminCall("settingsLoading", "settingsError", "getSettings", 0, <<>>)
    /\ last' = [op |-> "fetchSettings"]

fetchSettingsResolved ==
    \E c \in InFlight, data \in SettingsValues :
        /\ c.fn = "getSettings"
        /\ adminStore' = [adminStore EXCEPT !.settings = data,
                                            !.settingsLoading = FALSE]
        /\ inflight' = Settle(c)
        /\ last' = [op |-> "fetchSettingsResolved", promise |-> VoidOp(FALSE)]
        /\ UNCHANGED <<localStorage, location, AdminFrame>>

fetchSettingsRejected ==
    \E c \in InFlight, err \in AxiosErrors :
        /\ c.fn = "getSettings"
        /\ AdminCatch(c, err, "settingsLoading", "settingsError",
                      "Erreur de chargement des parametres")
        /\ last' = [op |-> "fetchSettingsRejected", promise |-> VoidOp(TRUE),
                    status |-> err.status, detail |-> err.detail]

updateSettings ==
    \E newSettings \in SettingsValues :
        /\ AdminCall("settingsSaving", "settingsError", "updateSettings", 0,
                     <<newSettings>>)
        /\ last' = [op |-> "updateSettings"]

updateSettingsResolved ==
    \E c \in InFlight, data \in SettingsValues :
        /\ c.fn = "updateSettings"
        /\ adminStore' = [adminStore EXCEPT !.settings = data,
                                            !.settingsSaving = FALSE]
        /\ inflight' = Settle(c)
        /\ last' = [op |-> "updateSettingsResolved", promise |-> BoolOp(FALSE)]
        /\ UNCHANGED <<localStorage, location, AdminFrame>>

updateSettingsRejected ==
    \E c \in InFlight, err \in AxiosErrors :
        /\ c.fn = "updateSettings"
        /\ AdminCatch(c, err, "settingsSaving", "settingsError",
                      "Erreur de mise a jour des parametres")
        /\ last' = [op |-> "updateSettingsRejected", promise |-> BoolOp(TRUE),
                    status |-> err.status, detail |-> err.detail]

---------------------------------------------------------------------------
(* Admin.vue: the tabs and what loads their data *)

AdminTabs == {"dashboard", "users", "settings"}

AdminViewFrame ==
    <<requestsStore, searchStore, authStore, appMounted, activeTab, nav,
      route, myRequests, timers, server, localStorage, location, lastCancelled>>

\* adminStore.fetchStats() / fetchSettings(), as the view calls them
CallAdmin(flag, field, fn) ==
    /\ CanSend
    /\ adminStore' = [adminStore EXCEPT ![flag] = TRUE, ![field] = null]
    /\ inflight' = Send(Call(fn, 0, <<>>))

\* onMounted: loadDashboard() -> adminStore.fetchStats()
mountAdmin ==
    /\ ~adminView.mounted
    /\ CallAdmin("loading", "error", "getStats")
    /\ adminView' = [mounted |-> TRUE, activeTab |-> "dashboard"]
    /\ last' = [op |-> "mountAdmin"]
    /\ UNCHANGED AdminViewFrame

\* the tab buttons, shown once the statistics call has settled (v-else of
\* adminStore.loading): @click="activeTab = 'dashboard' | 'users' | 'settings'"
selectAdminTab ==
    \E tab \in AdminTabs :
        /\ adminView.mounted
        /\ ~adminStore.loading
        /\ adminView' = [adminView EXCEPT !.activeTab = tab]
        /\ last' = [op |-> "selectAdminTab", tab |-> tab]
        /\ UNCHANGED <<adminStore, inflight, AdminViewFrame>>

\* SettingsForm's cancel button (its form shows when the settings are neither
\* loading nor in error): @cancel="loadSettings" -> adminStore.fetchSettings()
loadSettings ==
    /\ adminView.mounted
    /\ ~adminStore.loading
    /\ adminView.activeTab = "settings"
    /\ ~adminStore.settingsLoading
    /\ adminStore.settingsError = null
    /\ CallAdmin("settingsLoading", "settingsError", "getSettings")
    /\ last' = [op |-> "loadSettings"]
    /\ UNCHANGED <<adminView, AdminViewFrame>>

---------------------------------------------------------------------------
(* router/index.ts: router.beforeEach *)

RouteMeta ==
    [requiresGuest : BOOLEAN, requiresAuth : BOOLEAN, requiresAdmin : BOOLEAN]
FullPaths == {"/p", "/p?tab=1", "/p/2"}
Destinations == [meta : RouteMeta, fullPath : FullPaths]

RedirectHome == [type |-> "redirect", name |-> "home", redirect |-> null]
RedirectLogin(fullPath) ==
    [type |-> "redirect", name |-> "login", redirect |-> fullPath]
Proceed == [type |-> "next", name |-> null, redirect |-> null]

\* (faulty variant: the admin test ahead of the authentication test)
AdminFirst(to, authenticated, admin) ==
    IF to.meta.requiresGuest /\ authenticated THEN RedirectHome
    ELSE IF to.meta.requiresAdmin /\ ~admin THEN RedirectHome
    ELSE IF to.meta.requiresAuth /\ ~authenticated
         THEN RedirectLogin(to.fullPath)
    ELSE Proceed

\* what the guard passes to next()
Guard(to, authenticated, admin) ==
    IF to.meta.requiresGuest /\ authenticated THEN RedirectHome
    ELSE IF to.meta.requiresAuth /\ ~authenticated
         THEN RedirectLogin(to.fullPath)
    ELSE IF to.meta.requiresAdmin /\ ~admin THEN RedirectHome
    ELSE Proceed

beforeEach ==
    \E to \in Destinations :
        /\ nav' = [type |-> "guarded", to |-> to,
                   result |-> Guard(to, isAuthenticated, isAdmin)]
        /\ last' = [op |-> "beforeEach"]
        /\ UNCHANGED <<requestsStore, searchStore, authStore, localStorage,
                       location, inflight, appMounted, activeTab, lastCancelled,
                       Views>>

---------------------------------------------------------------------------
(* router/index.ts: the route table; Login.vue: handleLogin *)

NoMeta ==
    [requiresGuest |-> FALSE, requiresAuth |-> FALSE, requiresAdmin |-> FALSE]

\* (faulty variant: home asks for a session, /admin only for the admin role)
routesHomeGuarded ==
    {[path |-> "/", name |-> "home",
      meta |-> [NoMeta EXCEPT !.requiresAuth = TRUE]],
     [path |-> "/login", name |-> "login",
      meta |-> [NoMeta EXCEPT !.requiresGuest = TRUE]],
     [path |-> "/search", name |-> "search",
      meta |-> [NoMeta EXCEPT !.requiresAuth = TRUE]],
     [path |-> "/requests", name |-> "requests",
      meta |-> [NoMeta EXCEPT !.requiresAuth = TRUE]],
     [path |-> "/admin", name |-> "admin",
      meta |-> [NoMeta EXCEPT !.requiresAdmin = TRUE]]}
\* routes: [...]
routes ==
    {[path |-> "/", name |-> "home", meta |-> NoMeta],
     [path |-> "/login", name |-> "login",
      meta |-> [NoMeta EXCEPT !.requiresGuest = TRUE]],
     [path |-> "/search", name |-> "search",
      meta |-> [NoMeta EXCEPT !.requiresAuth = TRUE]],
     [path |-> "/requests", name |-> "requests",
      meta |-> [NoMeta EXCEPT !.requiresAuth = TRUE]],
     [path |-> "/admin", name |-> "admin",
      meta |-> [NoMeta EXCEPT !.requiresAuth = TRUE, !.requiresAdmin = TRUE]]}

\* the full paths a link or the address bar hands to the router: a path of
\* the table, with or without a query string
Links ==
    {[fullPath |-> "/", path |-> "/"],
     [fullPath |-> "/login", path |-> "/login"],
     [fullPath |-> "/search", path |-> "/search"],
     [fullPath |-> "/search?q=dune", path |-> "/search"],
     [fullPath |-> "/requests", path |-> "/requests"],
     [fullPath |-> "/admin", path |-> "/admin"]}
LinkPaths == {l.fullPath : l \in Links}

\* the router's matcher: the record of the route a full path leads to
\* (a redirect query on the login page is carried in `redirect`)
resolve(fullPath, redirect) ==
    LET link == CHOOSE l \in Links : l.fullPath = fullPath
        record == CHOOSE r \in routes : r.path = link.path
    IN [meta |-> record.meta, fullPath |-> fullPath, path |-> record.path,
        redirect |-> redirect]

\* next({ name: 'home' }) / next({ name: 'login', query: { redirect } })
Redirected(result) ==
    IF result.name = "login" THEN resolve("/login", result.redirect)
    ELSE resolve("/", null)

\* a navigation to `to`: the guard runs, and runs again on the location it
\* redirects to, until it lets the navigation through
RECURSIVE Land(_, _, _)
Land(to, authenticated, admin) ==
    LET result == Guard(to, authenticated, admin)
    IN IF result.type = "next" THEN to
       ELSE Land(Redirected(result), authenticated, admin)

\* currentRoute once the navigation to `to` is confirmed
Confirmed(to) == [path |-> to.path, redirect |-> to.redirect]

LoginFrame ==
    <<requestsStore, searchStore, activeTab, myRequests, timers, adminStore,
      adminView, server, lastCancelled>>

\* router.push(fullPath) from a link, or a URL typed in the address bar
push ==
    \E fullPath \in LinkPaths :
        LET to == resolve(fullPath, null)
        IN /\ nav' = [type |-> "guarded", to |-> to,
                      result |-> Guard(to, isAuthenticated, isAdmin)]
           /\ route' = Confirmed(Land(to, isAuthenticated, isAdmin))
           /\ last' = [op |-> "push", fullPath |-> fullPath]
           /\ UNCHANGED <<authStore, localStorage, location, inflight,
                          appMounted, LoginFrame>>

\* (faulty variant: the remembered path is ignored)
AlwaysHome(query) == "/"
\* (route.query.redirect as string) || '/'
RedirectTarget(query) == OrElse(query, "/")

\* handleLogin up to `await authStore.login(...)`: the form of the login page
handleLogin ==
    /\ appMounted
    /\ route.path = "/login"
    /\ CanSend
    /\ authStore' = Begin(authStore)
    /\ inflight' = Send(Call("login", 0, <<>>))
    /\ last' = [op |-> "handleLogin"]
    /\ UNCHANGED <<localStorage, location, appMounted, nav, route, LoginFrame>>

\* login succeeded: if (success) router.push(redirect)
handleLoginResolved ==
    \E c \in InFlight, data \in LoginResponses :
        LET session == Finally(StoreLogin(authStore, data))
            redirect == RedirectTarget(route.redirect)
            to == resolve(redirect, null)
            authenticated == Truthy(session.token) /\ session.user # NoUser
            admin == session.user.role = "admin"
        IN /\ c.fn = "login"
           /\ authStore' = session
           /\ localStorage' = data.access_token
           /\ inflight' = Settle(c)
           /\ nav' = [type |-> "guarded", to |-> to,
                      result |-> Guard(to, authenticated, admin)]
           /\ route' = Confirmed(Land(to, authenticated, admin))
           /\ last' = [op |-> "handleLoginResolved", promise |-> BoolOp(FALSE),
                       redirect |-> redirect]
           /\ UNCHANGED <<location, appMounted, LoginFrame>>

\* login failed: success is false, the page stays where it is
handleLoginRejected ==
    \E c \in InFlight, err \in AxiosErrors :
        /\ c.fn = "login"
        /\ Intercept(err)
        /\ authStore' =
             Finally([authStore EXCEPT
                        !.error = OrElse(RejectMessage(err), "Erreur de connexion")])
        /\ inflight' = Settle(c)
        /\ last' = [op |-> "handleLoginRejected", promise |-> BoolOp(TRUE),
                    status |-> err.status, detail |-> err.detail]
        /\ UNCHANGED <<appMounted, nav, route, LoginFrame>>

---------------------------------------------------------------------------
(* services/api.ts: every method of ApiService, seen from its caller *)

ApiMethods ==
    {"login", "logout", "getCurrentUser", "searchMedia", "createRequest",
     "getMyRequests", "getAllRequests", "getRequest", "cancelRequest",
     "getPlexLibrary", "searchPlexLibrary", "syncPlexLibrary", "getStats",
     "getUsers", "deleteUser", "updateUserStatus", "getSettings",
     "updateSettings"}

TransportFrame ==
    <<requestsStore, searchStore, authStore, appMounted, activeTab, nav,
      lastCancelled, Views>>

\* this.client.<verb>(...): the request interceptor sets the header
request ==
    \E fn \in ApiMethods :
        /\ CanSend
        /\ inflight' = Send(Call(fn, 0, <<>>))
        /\ last' = [op |-> "request", fn |-> fn, headers |-> Authorization]
        /\ UNCHANGED <<localStorage, location, TransportFrame>>

\* response => response
response ==
    \E c \in InFlight :
        /\ inflight' = Settle(c)
        /\ last' = [op |-> "response", fn |-> c.fn]
        /\ UNCHANGED <<localStorage, location, TransportFrame>>

\* (error) => { ...; return Promise.reject(new Error(message)) }
responseError ==
    \E c \in InFlight, err \in AxiosErrors :
        /\ Intercept(err)
        /\ inflight' = Settle(c)
        /\ last' = [op |-> "responseError", fn |-> c.fn, status |-> err.status,
                    stored |-> localStorage, message |-> RejectMessage(err)]
        /\ UNCHANGED TransportFrame

---------------------------------------------------------------------------
(* Construction *)

NewRequestsStore == [requests |-> <<>>, loading |-> FALSE, error |-> null]
NewSearchStore ==
    [results |-> <<>>, loading |-> FALSE, error |-> null, lastQuery |-> <<>>,
     selectedMediaType |-> "all"]
NewAuthStore(stored) ==
    [token |-> stored, user |-> NoUser, loading |-> FALSE, error |-> null]

NewAdminStore ==
    [stats |-> null, users |-> <<>>, settings |-> null,
     loading |-> FALSE, error |-> null,
     usersLoading |-> FALSE, usersError |-> null,
     settingsLoading |-> FALSE, settingsSaving |-> FALSE,
     settingsError |-> null]

\* the page as loaded at `path`, before any view is mounted
Loaded(path) ==
    /\ route = [path |-> path, redirect |-> null]
    /\ myRequests = NoView
    /\ timers = NoTimers
    /\ adminStore = NewAdminStore
    /\ adminView = NoAdminView
    /\ server = NoServer

\* a signed-in session: what login leaves behind
SignedIn(t, u) ==
    [token |-> t, user |-> u, loading |-> FALSE, error |-> null]

\* the requests store as used by the views behind requiresAuth
Init ==
    /\ requestsStore = NewRequestsStore
    /\ searchStore = NewSearchStore
    /\ authStore = SignedIn("t1", [id |-> 1, role |-> "user"])
    /\ localStorage = "t1"
    /\ location = "/requests"
    /\ inflight = EmptyBag
    /\ appMounted = TRUE
    /\ activeTab = "all"
    /\ nav = [type |-> "none"]
    /\ lastCancelled = 0
    /\ last = [op |-> "init"]
    /\ Loaded("/requests")

Next ==
    \/ fetchMyRequests
    \/ fetchMyRequestsResolved
    \/ fetchMyRequestsRejected
    \/ fetchAllRequests
    \/ fetchAllRequestsResolved
    \/ fetchAllRequestsRejected
    \/ createRequest
    \/ createRequestResolved
    \/ createRequestRejected
    \/ cancelRequest
    \/ cancelRequestResolved
    \/ cancelRequestRejected
    \/ clearError

Spec == Init /\ [][Next]_vars

---------------------------------------------------------------------------
(* The derived views over any request sequence *)

\* sequences of up to MaxViewLen requests of any status, and one sequence
\* with one request of each status
AllStatuses ==
    <<"pending", "searching", "awaiting_approval", "downloading", "processing",
      "completed", "error", "cancelled">>
OnePerStatus == [i \in 1..8 |-> [id |-> i, status |-> AllStatuses[i]]]
ViewLists ==
    {[i \in DOMAIN st |-> [id |-> i, status |-> st[i]]] :
        st \in UNION {[1..n -> RequestStatus] : n \in 0..MaxViewLen}}
    \cup {OnePerStatus}

InitViews ==
    /\ \E list \in ViewLists :
         requestsStore = [NewRequestsStore EXCEPT !.requests = list]
    /\ searchStore = NewSearchStore
    /\ authStore = SignedIn("t1", [id |-> 1, role |-> "user"])
    /\ localStorage = "t1"
    /\ location = "/requests"
    /\ inflight = EmptyBag
    /\ appMounted = TRUE
    /\ activeTab = "all"
    /\ nav = [type |-> "none"]
    /\ lastCancelled = 0
    /\ last = [op |-> "init"]
    /\ Loaded("/requests")

NextViews == selectTab

SpecViews == InitViews /\ [][NextViews]_vars

---------------------------------------------------------------------------
(* The request cards of a list holding one request of each status *)

InitCards ==
    /\ requestsStore = [NewRequestsStore EXCEPT !.requests = OnePerStatus]
    /\ searchStore = NewSearchStore
    /\ authStore = SignedIn("t1", [id |-> 1, role |-> "user"])
    /\ localStorage = "t1"
    /\ location = "/requests"
    /\ inflight = EmptyBag
    /\ appMounted = TRUE
    /\ activeTab = "all"
    /\ nav = [type |-> "none"]
    /\ lastCancelled = 0
    /\ last = [op |-> "init"]
    /\ Loaded("/requests")

NextCards ==
    \/ selectTab
    \/ handleCancelRequest
    \/ cancelRequestResolved
    \/ cancelRequestRejected

SpecCards == InitCards /\ [][NextCards]_vars

---------------------------------------------------------------------------
(* The status badges of lists holding any status string *)

BadgeLists ==
    {[i \in DOMAIN st |-> [id |-> i, status |-> st[i]]] :
        st \in UNION {[1..n -> RequestStatus \cup OtherStatuses] :
                        n \in 0..MaxViewLen}}

InitBadges ==
    /\ \E list \in BadgeLists :
         requestsStore = [NewRequestsStore EXCEPT !.requests = list]
    /\ searchStore = NewSearchStore
    /\ authStore = SignedIn("t1", [id |-> 1, role |-> "user"])
    /\ localStorage = "t1"
    /\ location = "/requests"
    /\ inflight = EmptyBag
    /\ appMounted = TRUE
    /\ activeTab = "all"
    /\ nav = [type |-> "none"]
    /\ lastCancelled = 0
    /\ last = [op |-> "init"]
    /\ Loaded("/requests")

NextBadges ==
    \/ selectTab
    \/ StatusBadge

SpecBadges == InitBadges /\ [][NextBadges]_vars

---------------------------------------------------------------------------
(* The administration page of a signed-in administrator *)

InitAdmin ==
    /\ requestsStore = NewRequestsStore
    /\ searchStore = NewSearchStore
    /\ authStore = SignedIn("t1", [id |-> 2, role |-> "admin"])
    /\ localStorage = "t1"
    /\ location = "/admin"
    /\ inflight = EmptyBag
    /\ appMounted = TRUE
    /\ activeTab = "all"
    /\ nav = [type |-> "none"]
    /\ lastCancelled = 0
    /\ last = [op |-> "init"]
    /\ Loaded("/admin")

NextAdmin ==
    \/ mountAdmin
    \/ selectAdminTab
    \/ loadSettings
    \/ fetchStatsResolved
    \/ fetchStatsRejected
    \/ fetchSettingsResolved
    \/ fetchSettingsRejected

SpecAdmin == InitAdmin /\ [][NextAdmin]_vars

---------------------------------------------------------------------------
(* The requests store against the remote API: every order in which the API  *)
(* handles the calls and in which their responses arrive                    *)

InitRace ==
    /\ requestsStore = NewRequestsStore
    /\ searchStore = NewSearchStore
    /\ authStore = SignedIn("t1", [id |-> 1, role |-> "user"])
    /\ localStorage = "t1"
    /\ location = "/requests"
    /\ inflight = EmptyBag
    /\ appMounted = TRUE
    /\ activeTab = "all"
    /\ nav = [type |-> "none"]
    /\ lastCancelled = 0
    /\ last = [op |-> "init"]
    /\ route = [path |-> "/requests", redirect |-> null]
    /\ myRequests = NoView
    /\ timers = NoTimers
    /\ adminStore = NewAdminStore
    /\ adminView = NoAdminView
    /\ server = NewServer

NextRace ==
    \/ createRequest
    \/ fetchMyRequests
    \/ fetchAllRequests
    \/ cancelRequest
    \/ postRequests
    \/ getRequests
    \/ deleteRequests
    \/ createRequestResolved
    \/ fetchMyRequestsResolved
    \/ fetchAllRequestsResolved
    \/ cancelRequestResolved
    \/ cancelRequestRejected

SpecRace == InitRace /\ [][NextRace]_vars

---------------------------------------------------------------------------
(* Application start with a token the API accepts in localStorage: the      *)
(* page loads at any route of the table, the session is restored, and the   *)
(* user navigates at any point of it                                        *)

InitStartup ==
    /\ requestsStore = NewRequestsStore
    /\ searchStore = NewSearchStore
    /\ localStorage \in Tokens
    /\ authStore = NewAuthStore(localStorage)
    /\ location \in {r.path : r \in routes}
    /\ inflight = EmptyBag
    /\ appMounted = FALSE
    /\ activeTab = "all"
    /\ nav = [type |-> "guarded", to |-> resolve(location, null),
              result |-> Guard(resolve(location, null), FALSE, FALSE)]
    /\ route = Confirmed(Land(resolve(location, null), FALSE, FALSE))
    /\ myRequests = NoView
    /\ timers = NoTimers
    /\ adminStore = NewAdminStore
    /\ adminView = NoAdminView
    /\ server = NoServer
    /\ lastCancelled = 0
    /\ last = [op |-> "init"]

NextStartup ==
    \/ push
    \/ mountApp
    \/ fetchCurrentUserResolved

SpecStartup == InitStartup /\ [][NextStartup]_vars

---------------------------------------------------------------------------
(* The search store *)

InitSearch ==
    /\ requestsStore = NewRequestsStore
    /\ searchStore = NewSearchStore
    /\ authStore = SignedIn("t1", [id |-> 1, role |-> "user"])
    /\ localStorage = "t1"
    /\ location = "/search"
    /\ inflight = EmptyBag
    /\ appMounted = TRUE
    /\ activeTab = "all"
    /\ nav = [type |-> "none"]
    /\ lastCancelled = 0
    /\ last = [op |-> "init"]
    /\ Loaded("/search")

NextSearch ==
    \/ search
    \/ handleSearch
    \/ searchResolved
    \/ searchRejected
    \/ clearResults

SpecSearch == InitSearch /\ [][NextSearch]_vars

---------------------------------------------------------------------------
(* The auth store from application start *)

InitAuth ==
    /\ requestsStore = NewRequestsStore
    /\ searchStore = NewSearchStore
    /\ localStorage \in {null, "t1"}
    /\ authStore = NewAuthStore(localStorage)
    /\ location = "/"
    /\ inflight = EmptyBag
    /\ appMounted = FALSE
    /\ activeTab = "all"
    /\ nav = [type |-> "none"]
    /\ lastCancelled = 0
    /\ last = [op |-> "init"]
    /\ Loaded("/")

NextAuth ==
    \/ mountApp
    \/ fetchCurrentUserResolved
    \/ fetchCurrentUserRejected
    \/ login
    \/ loginResolved
    \/ loginRejected
    \/ logout
    \/ logoutResolved
    \/ logoutRejected

SpecAuth == InitAuth /\ [][NextAuth]_vars

---------------------------------------------------------------------------
(* The route guard over every route meta and every session *)

Sessions ==
    {[token |-> t, user |-> u, loading |-> FALSE, error |-> null] :
        t \in {null, "t1"}, u \in {NoUser} \cup Users}

InitGuard ==
    /\ requestsStore = NewRequestsStore
    /\ searchStore = NewSearchStore
    /\ authStore \in Sessions
    /\ localStorage = authStore.token
    /\ location = "/"
    /\ inflight = EmptyBag
    /\ appMounted = TRUE
    /\ activeTab = "all"
    /\ nav = [type |-> "none"]
    /\ lastCancelled = 0
    /\ last = [op |-> "init"]
    /\ Loaded("/")

NextGuard == beforeEach

SpecGuard == InitGuard /\ [][NextGuard]_vars

---------------------------------------------------------------------------
(* Navigation under every session, to the routes of the table and to a      *)
(* route of any meta                                                        *)

NextNav ==
    \/ push
    \/ beforeEach

SpecNav == InitGuard /\ [][NextNav]_vars

---------------------------------------------------------------------------
(* The transport layer under a signed-in session *)

InitTransport ==
    /\ requestsStore = NewRequestsStore
    /\ searchStore = NewSearchStore
    /\ authStore = SignedIn("t1", [id |-> 1, role |-> "user"])
    /\ localStorage = "t1"
    /\ location = "/"
    /\ inflight = EmptyBag
    /\ appMounted = TRUE
    /\ activeTab = "all"
    /\ nav = [type |-> "none"]
    /\ lastCancelled = 0
    /\ last = [op |-> "init"]
    /\ Loaded("/")

NextTransport ==
    \/ request
    \/ response
    \/ responseError

SpecTransport == InitTransport /\ [][NextTransport]_vars

---------------------------------------------------------------------------
(* The requests view, mounted and torn down any number of times *)

InitRefresh ==
    /\ requestsStore = NewRequestsStore
    /\ searchStore = NewSearchStore
    /\ authStore = SignedIn("t1", [id |-> 1, role |-> "user"])
    /\ localStorage = "t1"
    /\ location = "/"
    /\ inflight = EmptyBag
    /\ appMounted = TRUE
    /\ activeTab = "all"
    /\ nav = [type |-> "none"]
    /\ lastCancelled = 0
    /\ last = [op |-> "init"]
    /\ Loaded("/")

NextRefresh ==
    \/ mountMyRequests
    \/ tick
    \/ unmountMyRequests
    \/ fetchMyRequestsResolved
    \/ fetchMyRequestsRejected

SpecRefresh == InitRefresh /\ [][NextRefresh]_vars

\* window.location.href = '/login' (api.ts) leaves the single-page
\* application: right after the handler that received the 401 the browser
\* loads the document anew. Every store is constructed again (auth.ts reads
\* the token from localStorage), the calls in flight are dropped, and the
\* router's first navigation is to the assigned URL, which has no query.
pageLoad ==
    LET to == resolve(location, null)
    IN /\ "status" \in DOMAIN last
       /\ last.status = 401
       /\ requestsStore' = NewRequestsStore
       /\ searchStore' = NewSearchStore
       /\ adminStore' = NewAdminStore
       /\ authStore' = NewAuthStore(localStorage)
       /\ inflight' = EmptyBag
       /\ appMounted' = FALSE
       /\ activeTab' = "all"
       /\ myRequests' = NoView
       /\ adminView' = NoAdminView
       /\ timers' = NoTimers
       /\ nav' = [type |-> "guarded", to |-> to,
                  result |-> Guard(to, FALSE, FALSE)]
       /\ route' = Confirmed(Land(to, FALSE, FALSE))
       /\ last' = [op |-> "pageLoad"]
       /\ UNCHANGED <<localStorage, location, server, lastCancelled>>

---------------------------------------------------------------------------
(* Navigation and the login page, from a signed-out session *)

InitLogin ==
    /\ requestsStore = NewRequestsStore
    /\ searchStore = NewSearchStore
    /\ authStore = NewAuthStore(null)
    /\ localStorage = null
    /\ location = "/"
    /\ inflight = EmptyBag
    /\ appMounted = TRUE
    /\ activeTab = "all"
    /\ nav = [type |-> "none"]
    /\ lastCancelled = 0
    /\ last = [op |-> "init"]
    /\ Loaded("/")

NextLogin ==
    \/ push
    \/ pageLoad
    \/ mountApp
    \/ handleLogin
    \/ handleLoginResolved
    \/ handleLoginRejected
    \/ logout
    \/ logoutResolved
    \/ logoutRejected

SpecLogin == InitLogin /\ [][NextLogin]_vars

---------------------------------------------------------------------------
(* The requests view with its refresh, next to another store at work *)

NextErrors ==
    \/ mountMyRequests
    \/ tick
    \/ unmountMyRequests
    \/ fetchMyRequestsResolved
    \/ fetchMyRequestsRejected
    \/ clearError
    \/ fetchStats
    \/ fetchStatsResolved
    \/ fetchStatsRejected
    \/ adminClearError

SpecErrors == InitRefresh /\ [][NextErrors]_vars

---------------------------------------------------------------------------
(* Every store operation and every outcome of its call, one operation of   *)
(* the request, search or admin store per session                          *)

\* nothing awaits a response and no request, search or admin operation has run
Idle ==
    /\ inflight = EmptyBag
    /\ requestsStore = NewRequestsStore
    /\ searchStore = NewSearchStore
    /\ adminStore = NewAdminStore

InitStores ==
    /\ requestsStore = NewRequestsStore
    /\ searchStore = NewSearchStore
    /\ localStorage \in {null, "t1"}
    /\ authStore = NewAuthStore(localStorage)
    /\ location = "/"
    /\ inflight = EmptyBag
    /\ appMounted = FALSE
    /\ activeTab = "all"
    /\ nav = [type |-> "none"]
    /\ lastCancelled = 0
    /\ last = [op |-> "init"]
    /\ Loaded("/")

\* an operation is started
StartStores ==
    /\ Idle
    /\ \/ login
       \/ logout
       \/ fetchMyRequests
       \/ fetchAllRequests
       \/ createRequest
       \/ cancelRequest
       \/ search
       \/ fetchStats
       \/ fetchUsers
       \/ deleteUser
       \/ updateUserStatus
       \/ fetchSettings
       \/ updateSettings

\* the response to its call arrives
SettleStores ==
    \/ fetchCurrentUserResolved
    \/ fetchCurrentUserRejected
    \/ loginResolved
    \/ loginRejected
    \/ logoutResolved
    \/ logoutRejected
    \/ fetchMyRequestsResolved
    \/ fetchMyRequestsRejected
    \/ fetchAllRequestsResolved
    \/ fetchAllRequestsRejected
    \/ createRequestResolved
    \/ createRequestRejected
    \/ cancelRequestResolved
    \/ cancelRequestRejected
    \/ searchResolved
    \/ searchRejected
    \/ fetchStatsResolved
    \/ fetchStatsRejected
    \/ fetchUsersResolved
    \/ fetchUsersRejected
    \/ deleteUserResolved
    \/ deleteUserRejected
    \/ updateUserStatusResolved
    \/ updateUserStatusRejected
    \/ fetchSettingsResolved
    \/ fetchSettingsRejected
    \/ updateSettingsResolved
    \/ updateSettingsRejected

NextStores ==
    \/ mountApp
    \/ StartStores
    \/ SettleStores

SpecStores == InitStores /\ [][NextStores]_vars

---------------------------------------------------------------------------
(* Claims on the requests store *)

IdsOf(seq) == {seq[i].id : i \in DOMAIN seq}
NoDuplicateId(seq) ==
    \A i, j \in DOMAIN seq : i # j => seq[i].id # seq[j].id

\* C1: when the remote creation succeeds, the local sequence is the previous
\* sequence with exactly one entry added at the front, that entry is the
\* object the server returned, the previous entries keep their order, and
\* createRequest returns true.
C1_CreatePrepends ==
    [][last'.op = "createRequestResolved" =>
        /\ Len(requestsStore'.requests) = Len(requestsStore.requests) + 1
        /\ Head(requestsStore'.requests) = last'.resp
        /\ Tail(requestsStore'.requests) = requestsStore.requests
        /\ last'.ret = TRUE]_vars

C1_Witness ==
    /\ last.op = "createRequestResolved"
    /\ Len(requestsStore.requests) >= 2
    /\ requestsStore.requests[1] = last.resp
    /\ requestsStore.requests[2] # last.resp

RejectedOps ==
    {"fetchMyRequestsRejected", "fetchAllRequestsRejected",
     "createRequestRejected", "cancelRequestRejected"}
IssuingOps ==
    {"fetchMyRequests", "fetchAllRequests", "createRequest", "cancelRequest"}

\* C2: when the remote call of fetchMyRequests, fetchAllRequests,
\* createRequest or cancelRequest fails, the local sequence is left as it
\* was (neither issuing the call nor handling its failure changes its
\* length, elements or order), the error field holds a message (not null),
\* and createRequest / cancelRequest return false.
C2_FailureKeepsRequests ==
    [][/\ last'.op \in IssuingOps =>
            requestsStore'.requests = requestsStore.requests
       /\ last'.op \in RejectedOps =>
            /\ requestsStore'.requests = requestsStore.requests
            /\ requestsStore'.error # null
            /\ (last'.op \in {"createRequestRejected", "cancelRequestRejected"}
                  => last'.ret = FALSE)]_vars

C2_Witness ==
    /\ last.op \in RejectedOps
    /\ requestsStore.requests # <<>>
    /\ requestsStore.error # null

\* the k-th smallest of a set of positions
Kth(positions, k) ==
    CHOOSE i \in positions : Cardinality({j \in positions : j <= i}) = k

\* the positions of seq that hold another id than `id`
KeptPositions(seq, id) == {i \in DOMAIN seq : seq[i].id # id}

\* C3: when the remote cancellation of id succeeds, exactly the entries with
\* that id leave the local sequence, every other entry stays, in its
\* original order and with its content, and cancelRequest returns true.
C3_CancelRemovesExactlyId ==
    [][last'.op = "cancelRequestResolved" =>
        LET before == requestsStore.requests
            after == requestsStore'.requests
            id == last'.id
        IN /\ Len(after) = Cardinality(KeptPositions(before, id))
           /\ \A k \in DOMAIN after : after[k] = before[Kth(KeptPositions(before, id), k)]
           /\ id \notin IdsOf(after)
           /\ last'.ret = TRUE]_vars

C3_Witness ==
    /\ last.op = "cancelRequestResolved"
    /\ last.removed
    /\ requestsStore.requests # <<>>

\* C4: once cancelRequest(id) has succeeded, a fetchMyRequests issued after
\* it that resolves with a server list without id leaves exactly that list:
\* no entry with the cancelled id and no id twice.
C4_CancelThenRefetch ==
    (/\ last.op = "fetchMyRequestsResolved"
     /\ last.after
     /\ lastCancelled \notin IdsOf(last.resp))
    => /\ requestsStore.requests = last.resp
       /\ lastCancelled \notin IdsOf(requestsStore.requests)
       /\ NoDuplicateId(requestsStore.requests)

C4_Witness ==
    /\ last.op = "fetchMyRequestsResolved"
    /\ last.after
    /\ lastCancelled \notin IdsOf(last.resp)
    /\ last.resp # <<>>

---------------------------------------------------------------------------
(* Claims on the auth store, the transport layer and the route guard *)

\* C5: with a token in persistent storage at start, when the fetchCurrentUser
\* issued by the session restore (App mount -> setToken -> fetchCurrentUser)
\* fails, then as it resolves the in-memory token and user are null, the
\* persisted token is removed and isAuthenticated is false.
C5_RestoreFailsClosed ==
    last.op = "fetchCurrentUserRejected" =>
        /\ authStore.token = null
        /\ authStore.user = NoUser
        /\ localStorage = null
        /\ ~isAuthenticated

C5_Witness ==
    /\ last.op = "fetchCurrentUserRejected"
    /\ last.status = 500
    /\ authStore.error # null
    /\ localStorage = null

\* C6: in a signed-in session, a 401 response to any call made through the
\* transport layer, whichever method issued it, leaves the persisted token
\* removed and window.location.href set to the login page.
C6_ForcedLogout ==
    (last.op = "responseError" /\ last.status = 401) =>
        /\ localStorage = null
        /\ location = "/login"

C6_Witness ==
    /\ last.op = "responseError"
    /\ last.status = 401
    /\ last.fn = "getStats"
    /\ last.stored = "t1"
    /\ localStorage = null
    /\ location = "/login"

\* C7: when login fails, whatever status the server answers with, the error
\* field is set, login returns false, and the in-memory token, the in-memory
\* user and the persisted token are what they were, with no redirect.
C7_LoginFailureLeavesSession ==
    [][last'.op = "loginRejected" =>
        /\ authStore'.error # null
        /\ last'.ret = FALSE
        /\ authStore'.token = authStore.token
        /\ authStore'.user = authStore.user
        /\ localStorage' = localStorage
        /\ location' = location]_vars

\* C8: the guard's outcome is the ordered rule: (1) guest-only and
\* authenticated -> home; (2) else requires auth and not authenticated ->
\* login with the intended full path as the redirect query; (3) else requires
\* admin and not admin -> home; (4) else allow. A route requiring auth is
\* never admitted unauthenticated, one requiring admin never to a non-admin.
C8_GuardDecision ==
    nav.type = "guarded" =>
        LET m == nav.to.meta
            r1 == m.requiresGuest /\ isAuthenticated
            r2 == m.requiresAuth /\ ~isAuthenticated
            r3 == m.requiresAdmin /\ ~isAdmin
        IN /\ r1 => nav.result = RedirectHome
           /\ (~r1 /\ r2) =>
                /\ nav.result.type = "redirect"
                /\ nav.result.name = "login"
                /\ nav.result.redirect = nav.to.fullPath
           /\ (~r1 /\ ~r2 /\ r3) => nav.result = RedirectHome
           /\ (~r1 /\ ~r2 /\ ~r3) => nav.result.type = "next"
           /\ r2 => nav.result.type # "next"
           /\ r3 => nav.result.type # "next"

C8_Witness ==
    /\ nav.type = "guarded"
    /\ nav.to.meta.requiresAuth
    /\ nav.to.meta.requiresAdmin
    /\ ~nav.to.meta.requiresGuest
    /\ ~isAuthenticated
    /\ ~isAdmin
    /\ nav.result = RedirectLogin("/p?tab=1")

---------------------------------------------------------------------------
(* Claims on the derived views and on the search store *)

\* view holds exactly the entries of seq whose status is in statuses, in order
IsSelection(view, seq, statuses) ==
    LET positions == {i \in DOMAIN seq : seq[i].status \in statuses}
    IN /\ Len(view) = Cardinality(positions)
       /\ \A k \in DOMAIN view : view[k] = seq[Kth(positions, k)]

\* C9: pending = the entries with status pending, searching, downloading or
\* processing, completed = those with status completed, failed = those with
\* status error, each in the order of the sequence; the three are pairwise
\* disjoint; entries with status cancelled or awaiting_approval are in none
\* (they show under the "all" tab only); with one entry per status the three
\* views hold 6 of the 8 entries.
C9_DerivedViews ==
    LET all == requestsStore.requests
        uncovered == {all[i].id : i \in {j \in DOMAIN all :
                        all[j].status \in {"cancelled", "awaiting_approval"}}}
    IN /\ IsSelection(pendingRequests, all,
                      {"pending", "searching", "downloading", "processing"})
       /\ IsSelection(completedRequests, all, {"completed"})
       /\ IsSelection(failedRequests, all, {"error"})
       /\ IdsOf(pendingRequests) \cap IdsOf(completedRequests) = {}
       /\ IdsOf(pendingRequests) \cap IdsOf(failedRequests) = {}
       /\ IdsOf(completedRequests) \cap IdsOf(failedRequests) = {}
       /\ uncovered \cap (IdsOf(pendingRequests) \cup IdsOf(completedRequests)
                           \cup IdsOf(failedRequests)) = {}
       /\ (activeTab # "all" => uncovered \cap IdsOf(filteredRequests) = {})
       /\ (activeTab = "all" => filteredRequests = all)
       /\ (all = OnePerStatus =>
             Len(pendingRequests) + Len(completedRequests)
               + Len(failedRequests) = 6)

C9_Witness ==
    /\ requestsStore.requests = OnePerStatus
    /\ activeTab = "pending"
    /\ Len(filteredRequests) = 4
    /\ Len(completedRequests) = 1
    /\ Len(failedRequests) = 1

OnlyWhitespace(q) == \A i \in DOMAIN q : q[i] \in Whitespace

\* C10: search with an empty or whitespace-only query leaves results empty,
\* issues no remote call and does not touch loading (nor does handleSearch
\* issue a call for such a query).
C10_BlankSearchIsLocal ==
    [][/\ (last'.op = "search" /\ OnlyWhitespace(last'.query)) =>
            /\ searchStore'.results = <<>>
            /\ inflight' = inflight
            /\ searchStore'.loading = searchStore.loading
       /\ (last'.op = "handleSearch" /\ OnlyWhitespace(last'.query)) =>
            inflight' = inflight]_vars

C10_Witness ==
    /\ last.op = "search"
    /\ last.query = <<" ", " ">>
    /\ searchStore.results = <<>>
    /\ searchStore.loading
    /\ BagCardinality(inflight) = 1

\* C11: results changes only when a search completes (a success replaces it
\* with that search's response, a failure empties it), on a search with an
\* empty query, or on clearResults; issuing a search leaves the previous
\* results in place while it is in flight. With overlapping searches the
\* results are therefore those of the search that completed last, whatever
\* the order of issue.
C11_ResultsFollowCompletion ==
    [][/\ (last'.op \in {"search", "handleSearch"}
             /\ ~OnlyWhitespace(last'.query)) =>
            searchStore'.results = searchStore.results
       /\ last'.op = "searchResolved" => searchStore'.results = last'.resp
       /\ last'.op = "searchRejected" => searchStore'.results = <<>>
       /\ searchStore'.results # searchStore.results =>
            \/ last'.op \in {"searchResolved", "searchRejected", "clearResults"}
            \/ last'.op = "search" /\ OnlyWhitespace(last'.query)]_vars

\* the search issued first completes last and its response is what is shown
C11_Witness ==
    /\ last.op = "searchResolved"
    /\ searchStore.lastQuery # <<>>
    /\ last.query # searchStore.lastQuery
    /\ inflight = EmptyBag
    /\ searchStore.results = last.resp
    /\ searchStore.results # <<>>

\* C12: a search with a non-empty query that fails leaves error set and
\* results empty, one that succeeds leaves results replaced by the response;
\* either completion leaves loading false, so with no search in flight
\* loading is false.
C12_SearchCompletion ==
    /\ last.op = "searchRejected" =>
          /\ searchStore.error # null
          /\ searchStore.results = <<>>
          /\ ~searchStore.loading
    /\ last.op = "searchResolved" =>
          /\ searchStore.results = last.resp
          /\ ~searchStore.loading
    /\ (\A c \in InFlight : c.fn # "searchMedia") => ~searchStore.loading

C12_Witness ==
    /\ last.op = "searchRejected"
    /\ last.status = 0
    /\ searchStore.error = "Une erreur est survenue"
    /\ searchStore.results = <<>>
    /\ inflight = EmptyBag
    /\ ~searchStore.loading

---------------------------------------------------------------------------
(* Claims on logout and login *)

\* C13: whether the remote logout call succeeds or fails, when logout
\* resolves the in-memory token and user are null, the persisted token is
\* removed, isAuthenticated is false, and the promise the caller awaits is
\* fulfilled (no exception reaches the caller).
C13_LogoutAlwaysClears ==
    last.op \in {"logoutResolved", "logoutRejected"} =>
        /\ authStore.token = null
        /\ authStore.user = NoUser
        /\ localStorage = null
        /\ ~isAuthenticated
        /\ last.promise.state = "fulfilled"

C13_Witness ==
    /\ last.op = "logoutRejected"
    /\ last.status = 500
    /\ authStore.token = null
    /\ authStore.user = NoUser
    /\ localStorage = null

\* C14: when the remote login call succeeds, the token and the user of the
\* response are in memory and the token is in persistent storage, so that
\* right afterwards isAuthenticated is true, the in-memory token equals the
\* persisted token, and login returns true.
C14_LoginStoresSession ==
    last.op = "loginResolved" =>
        /\ authStore.token \in Tokens
        /\ authStore.user \in Users
        /\ localStorage = authStore.token
        /\ isAuthenticated
        /\ last.ret = TRUE
        /\ last.promise = [state |-> "fulfilled", value |-> "true"]

C14_Witness ==
    /\ last.op = "loginResolved"
    /\ authStore.token = "t2"
    /\ authStore.user.role = "admin"
    /\ localStorage = "t2"
    /\ isAuthenticated

---------------------------------------------------------------------------
(* Claims on the periodic refresh *)

\* the getMyRequests calls of bag b outnumber those of bag a by one
OneMoreFetch(a, b) ==
    /\ BagCardinality(b) = BagCardinality(a) + 1
    /\ \E c \in BagToSet(b) :
         /\ c.fn = "getMyRequests"
         /\ CopiesIn(c, b) = CopiesIn(c, a) + 1

\* C15: mounting the requests view invokes fetchMyRequests once and every
\* tick of its interval invokes it once; a tick only ever happens while the
\* view is mounted, and whenever the view is not mounted no interval is
\* active (while it is mounted exactly its own is), for every sequence of
\* mounts and unmounts.
C15_RefreshLifecycle ==
    [][/\ last'.op \in {"mountMyRequests", "tick"} =>
            OneMoreFetch(inflight, inflight')
       /\ last'.op = "tick" => myRequests.mounted
       /\ ~myRequests'.mounted => timers'.active = {}
       /\ myRequests'.mounted => timers'.active = {myRequests'.interval}]_vars

\* after a second mount, the second interval ticks; the first no longer does
C15_Witness ==
    /\ last.op = "tick"
    /\ last.handle = 2
    /\ myRequests = [mounted |-> TRUE, interval |-> 2]
    /\ timers.active = {2}

---------------------------------------------------------------------------
(* Claims across the stores *)

\* the steps of useAuthStore that assign token or call localStorage:
\* setToken (App.vue mount), fetchCurrentUser's catch, login's try, logout's finally
AuthWriters ==
    {"mountApp", "fetchCurrentUserRejected", "loginResolved",
     "logoutResolved", "logoutRejected"}

\* C16: the bearer token, in memory and in persistent storage, is written
\* only by the auth store's login, logout and session-restore paths; no step
\* of another component (the transport layer, the request, search and admin
\* stores) writes or removes it.
C16_TokenWrittenByAuthOnly ==
    [][(authStore'.token # authStore.token \/ localStorage' # localStorage)
        => last'.op \in AuthWriters]_vars

\* the remote calls each store issues
RequestsCalls ==
    {"getMyRequests", "getAllRequests", "createRequest", "cancelRequest"}
SearchCalls == {"searchMedia"}
AuthCalls == {"login", "logout", "getCurrentUser"}

\* C18: for every remote-backed operation, the owning store's loading flag
\* is true at every moment between the issue of its call and its
\* resolution, also when several operations of the store overlap.
C18_LoadingCoversCalls ==
    \A c \in InFlight :
        /\ c.fn \in RequestsCalls => requestsStore.loading
        /\ c.fn \in SearchCalls => searchStore.loading
        /\ c.fn \in AuthCalls => authStore.loading

---------------------------------------------------------------------------
(* Claims on navigation *)

\* the paths of the route table that require authentication and no more
AuthOnlyPaths == {"/search", "/requests"}
PathOfLink(fullPath) ==
    CASE fullPath \in {"/search", "/search?q=dune"} -> "/search"
      [] OTHER -> fullPath

FailureSteps ==
    {"fetchMyRequestsRejected", "fetchAllRequestsRejected",
     "createRequestRejected", "cancelRequestRejected", "searchRejected",
     "loginRejected", "logoutRejected", "fetchCurrentUserRejected",
     "fetchStatsRejected", "fetchUsersRejected", "deleteUserRejected",
     "updateUserStatusRejected", "fetchSettingsRejected",
     "updateSettingsRejected"}
SuccessSteps ==
    {"fetchMyRequestsResolved", "fetchAllRequestsResolved",
     "createRequestResolved", "cancelRequestResolved", "searchResolved",
     "loginResolved", "logoutResolved", "fetchCurrentUserResolved",
     "fetchStatsResolved", "fetchUsersResolved", "deleteUserResolved",
     "updateUserStatusResolved", "fetchSettingsResolved",
     "updateSettingsResolved"}
BooleanFailures ==
    {"createRequestRejected", "cancelRequestRejected", "loginRejected",
     "deleteUserRejected", "updateUserStatusRejected",
     "updateSettingsRejected"}
ErrorFieldOf(step) ==
    CASE step \in {"fetchMyRequestsRejected", "fetchAllRequestsRejected",
                   "createRequestRejected", "cancelRequestRejected"} ->
            requestsStore.error
      [] step = "searchRejected" -> searchStore.error
      [] step \in {"loginRejected", "fetchCurrentUserRejected"} -> authStore.error
      [] step = "fetchStatsRejected" -> adminStore.error
      [] step \in {"fetchUsersRejected", "deleteUserRejected",
                   "updateUserStatusRejected"} -> adminStore.usersError
      [] step \in {"fetchSettingsRejected", "updateSettingsRejected"} ->
            adminStore.settingsError

\* C17: whatever the outcome of the remote call (success, an error status,
\* 401, no response or timeout), every remote-backed operation of the
\* request, search, auth and admin stores resolves normally: its promise is
\* fulfilled, never rejected. A failure shows in the store's error field
\* (logout swallows it) and, for an operation that returns a boolean, in the
\* value false.
C17_NoExceptionEscapes ==
    /\ last.op \in FailureSteps \cup SuccessSteps =>
          last.promise.state = "fulfilled"
    /\ last.op \in FailureSteps =>
          /\ last.op # "logoutRejected" => ErrorFieldOf(last.op) # null
          /\ last.promise.value =
               (IF last.op \in BooleanFailures THEN "false" ELSE "undefined")

\* an admin operation whose call timed out
C17_Witness ==
    /\ last.op = "updateSettingsRejected"
    /\ last.status = 0
    /\ last.promise = [state |-> "fulfilled", value |-> "false"]
    /\ adminStore.settingsError = "Une erreur est survenue"
    /\ ~adminStore.settingsSaving

---------------------------------------------------------------------------
(* Claims on the error fields *)

\* an error field changes only by being dismissed, by the start of an
\* operation of its own store (reset to null) or by the failure of one
\* (set to a message)
RequestsErrorFrame ==
    requestsStore'.error # requestsStore.error =>
        \/ last'.op = "clearError" /\ requestsStore'.error = null
        \/ last'.op \in {"mountMyRequests", "tick"} /\ requestsStore'.error = null
        \/ last'.op = "fetchMyRequestsRejected" /\ requestsStore'.error # null
AdminErrorFrame ==
    adminStore'.error # adminStore.error =>
        \/ last'.op = "adminClearError" /\ adminStore'.error = null
        \/ last'.op = "fetchStats" /\ adminStore'.error = null
        \/ last'.op = "fetchStatsRejected" /\ adminStore'.error # null

---------------------------------------------------------------------------
(* Claims on the status model *)

Cancellable == {"pending", "searching", "awaiting_approval"}
NotCancellable == {"downloading", "processing", "completed", "error", "cancelled"}

\* C21: canCancel is true of a request exactly when its status is pending,
\* searching or awaiting_approval, and false for downloading, processing,
\* completed, error and cancelled; and a cancel is only ever started from the
\* card of a request whose status is one of those three.
C21_CancelOffered ==
    [][/\ \A i \in DOMAIN requestsStore.requests :
            LET r == requestsStore.requests[i]
            IN /\ r.status \in Cancellable => canCancel(r)
               /\ r.status \in NotCancellable => ~canCancel(r)
       /\ last'.op = "handleCancelRequest" =>
            /\ last'.card \in Cancellable
            /\ \E i \in DOMAIN filteredRequests :
                  /\ filteredRequests[i].id = last'.id
                  /\ filteredRequests[i].status \in Cancellable]_vars

\* a confirmed click on the card of a request awaiting approval: its call is out,
\* while requests of the five other statuses are on the page
C21_Witness ==
    /\ last.op = "handleCancelRequest"
    /\ last.confirmed
    /\ last.card = "awaiting_approval"
    /\ \E c \in InFlight : c.fn = "cancelRequest" /\ c.id = last.id
    /\ \E i \in DOMAIN requestsStore.requests :
          requestsStore.requests[i].status = "downloading"

\* C22: the status mapping is total: each of the 8 RequestStatus values gets a
\* defined, non-empty icon and label, and any other status string gets the
\* generic marker icon with the raw status string as its label.
C22_StatusMappingTotal ==
    last.op = "StatusBadge" =>
        /\ last.status \in RequestStatus =>
              /\ last.icon \notin {undefined, ""}
              /\ last.label \notin {undefined, ""}
        /\ last.status \notin RequestStatus =>
              /\ last.icon = "question mark"
              /\ last.label = last.status

---------------------------------------------------------------------------
(* Claims on the error message *)

\* the failures that record a message (logout swallows its error)
RecordingFailures == FailureSteps \ {"logoutRejected"}

\* the fixed message of the transport layer and the one of each operation
GenericFallback == "Une erreur est survenue"
OwnFallback(step) ==
    CASE step \in {"fetchMyRequestsRejected", "fetchAllRequestsRejected"} ->
            "Erreur de chargement des requetes"
      [] step = "createRequestRejected" -> "Erreur de creation de la requete"
      [] step = "cancelRequestRejected" -> "Erreur d'annulation de la requete"
      [] step = "searchRejected" -> "Erreur de recherche"
      [] step = "loginRejected" -> "Erreur de connexion"
      [] step = "fetchCurrentUserRejected" -> ""
      [] step = "fetchStatsRejected" -> "Erreur de chargement des statistiques"
      [] step = "fetchUsersRejected" -> "Erreur de chargement des utilisateurs"
      [] step = "deleteUserRejected" -> "Erreur de suppression de l'utilisateur"
      [] step = "updateUserStatusRejected" -> "Erreur de mise a jour du statut"
      [] step = "fetchSettingsRejected" -> "Erreur de chargement des parametres"
      [] step = "updateSettingsRejected" ->
            "Erreur de mise a jour des parametres"

\* C23 as stated: after a failed remote call the recorded message is the
\* server's detail when the response carries a string detail, and otherwise a
\* fixed fallback string, whatever the cause of the failure.
C23_DetailOrFallback ==
    last.op \in RecordingFailures =>
        IF last.detail.type = "string"
        THEN ErrorFieldOf(last.op) = last.detail.value
        ELSE ErrorFieldOf(last.op) \in {GenericFallback, OwnFallback(last.op)}

\* C23, amended: the recorded message is the server's detail when the response
\* carries a non-empty string detail; the transport layer's fixed fallback when
\* it carries no string detail (or there is no response); and, when the detail
\* is the empty string, the operation's own fixed fallback (fetchCurrentUser has
\* none and records the empty string). The status of the failure plays no part.
C23_MessageSelection ==
    last.op \in RecordingFailures =>
        ErrorFieldOf(last.op) =
            (IF last.detail.type # "string" THEN GenericFallback
             ELSE IF last.detail.value # "" THEN last.detail.value
             ELSE OwnFallback(last.op))

\* a creation refused with an empty detail: the operation's own fallback shows
C23_Witness ==
    /\ last.op = "createRequestRejected"
    /\ last.status = 500
    /\ last.detail = [type |-> "string", value |-> ""]
    /\ requestsStore.error = "Erreur de creation de la requete"

---------------------------------------------------------------------------
(* Claims on the administration page *)

\* bag b holds one more call of fn than bag a
OneMoreCall(fn, a, b) ==
    \E c \in BagToSet(b) :
        /\ c.fn = fn
        /\ CopiesIn(c, b) = CopiesIn(c, a) + 1

\* C24: switching the admin view to the users tab while the users list is empty
\* starts fetchUsers, switching to the settings tab while no settings are
\* loaded starts fetchSettings, and mounting the view starts fetchStats.
C24_TabSwitchLoads ==
    [][/\ (/\ adminView.activeTab # "users"
            /\ adminView'.activeTab = "users"
            /\ adminStore.users = <<>>)
           => OneMoreCall("getUsers", inflight, inflight')
       /\ (/\ adminView.activeTab # "settings"
            /\ adminView'.activeTab = "settings"
            /\ adminStore.settings = null)
           => OneMoreCall("getSettings", inflight, inflight')
       /\ (~adminView.mounted /\ adminView'.mounted)
           => OneMoreCall("getStats", inflight, inflight')]_vars

---------------------------------------------------------------------------
(* Claims on the requests store against the remote API *)

\* C25: with an API that gives every request an id of its own and serves only
\* lists without a duplicate, the local request sequence never holds two
\* entries with the same id, whatever the order in which the responses to
\* create, cancel, fetchMine and fetchAll arrive.
C25_UniqueIds == NoDuplicateId(requestsStore.requests)

\* C26: once cancelRequest(id) has succeeded, the response to a fetchMine or
\* fetchAll issued before that cancellation does not put an entry with that
\* id back into the local sequence.
C26_NoResurrection ==
    (/\ last.op \in {"fetchMyRequestsResolved", "fetchAllRequestsResolved"}
     /\ lastCancelled # 0
     /\ ~last.after)
    => lastCancelled \notin IdsOf(requestsStore.requests)

---------------------------------------------------------------------------
(* Claims on the session *)

\* C27: in every reachable state of the auth store a loaded user implies a
\* present token, hence isAdmin implies isAuthenticated, for every
\* interleaving of login, logout, setToken and fetchCurrentUser.
C27_UserImpliesToken ==
    /\ authStore.user # NoUser => authStore.token # null
    /\ isAdmin => isAuthenticated

\* C28: when a login has just succeeded while the fetchCurrentUser of the
\* session restore was still in flight, the resolution of that fetchCurrentUser
\* leaves the token and the user of the login in place, in the store and in
\* localStorage, whether it succeeds or fails.
C28_LoginSurvivesRestore ==
    [][(/\ last.op = "loginResolved"
        /\ last'.op \in {"fetchCurrentUserResolved", "fetchCurrentUserRejected"})
       => /\ authStore'.token = authStore.token
          /\ authStore'.user = authStore.user
          /\ localStorage' = localStorage]_vars

\* C29: with a token the API accepts in localStorage at startup, a navigation
\* of the mounted application to a route that requires authentication (and no
\* role) is not redirected, at whatever point of the session restore it
\* happens: it ends on the route asked for.
C29_RestoredSessionNavigates ==
    [][(/\ appMounted
        /\ last'.op = "push"
        /\ PathOfLink(last'.fullPath) \in AuthOnlyPaths)
       => /\ nav'.result.type = "next"
          /\ route'.path = PathOfLink(last'.fullPath)]_vars

\* C30: under any session, a navigation the guard redirects is redirected
\* once: the guard lets the redirect's target, home or login, through, and a
\* navigation to a route of the table ends there.
C30_OneRedirect ==
    (nav.type = "guarded" /\ nav.result.type = "redirect") =>
        /\ Guard(Redirected(nav.result), isAuthenticated, isAdmin).type = "next"
        /\ last.op = "push" => route.path = Redirected(nav.result).path

\* a signed-in user without the admin role asks for /admin and lands on home
C30_Witness ==
    /\ last.op = "push"
    /\ last.fullPath = "/admin"
    /\ isAuthenticated
    /\ ~isAdmin
    /\ nav.result = RedirectHome
    /\ route.path = "/"

====
